---------------------------- MODULE Spec2Model ----------------------------
(***************************************************************************)
(* Model of the web-app core of defense-hack:                              *)
(*   - getPositionFromAcceleration (src/web-app/lib/interpolation.ts:47-84)*)
(*     dead reckoning by double integration of acceleration;               *)
(*   - interpolateMagneticField (src/web-app/lib/interpolation.ts:5-44)    *)
(*     radius-limited averaging of magnetic magnitude on a lattice.        *)
(*                                                                         *)
(* Numbers.  JavaScript numbers are modelled as exact rationals held in    *)
(* scaled integers; IEEE rounding is followed where it decides what the    *)
(* code does, in the loops of the interpolator (InterpDoubleSpec):         *)
(*   - a timestamp is an integer number of milliseconds;                   *)
(*   - dt = (t - last)/1000 seconds is held as the integer dt*1000;        *)
(*   - a velocity v is held as v*1000, a reconstructed coordinate p as     *)
(*     p*1000*1000, so that v += a*dt and p += v*dt stay exact;            *)
(*   - in the interpolator a coordinate c of an input position is held as  *)
(*     the integer c*2^17, so that every coordinate is a double without    *)
(*     rounding (turf reads coordinates as degrees, and 2^-17 degree is    *)
(*     about 0.848 m on the ground), radius is held in                     *)
(*     millimetres, and the loop variables x and y, which advance by       *)
(*     cellSize = (maxX-minX)/gridSize, are held multiplied by gridSize;   *)
(*   - a quotient a/b is held as the fraction [num |-> a, den |-> b].      *)
(***************************************************************************)
EXTENDS Integers, Sequences, FiniteSets, TLC

VARIABLES
    measurements,  \* argument of getPositionFromAcceleration
    rpc,           \* "ready" | "returned" | "thrown": where that call stands
    positions,     \* the Position[] it returned (<<>> while none is returned)
    error,         \* the exception it raised ("none" while none is raised)
    points,        \* interpolateMagneticField: positions mapped to turf points
    gridSize,      \* its gridSize argument
    radius,        \* its radius argument (millimetres)
    x,             \* loop variable of line 21 (times gridSize)
    y,             \* loop variable of line 22 (times gridSize)
    grid,          \* the cells pushed so far (line 19, line 38)
    xDouble,       \* the IEEE double x holds, when rounding is followed
    yDouble,       \* the IEEE double y holds, when rounding is followed
    ipc,           \* "idle" | "start" | "outer" | "inner" | "done"
    store,         \* the measurements table, row i having id i
    gpc,           \* GET /api/measurements: "idle" | "start" | "awaiting" | "done"
    sessions,      \* its sessions: the rows selectDistinct returned
    tasks,         \* per session: "querying" | "fulfilled" | "rejected"
    paths,         \* the array Promise.all fills, one slot per session
    response,      \* the NextResponse.json it returned
    home,          \* the React state of the Home page (page.tsx useState)
    isRecording,   \* MagnetometerScreen: the isRecording state
    dataBatch,     \* its dataBatch state, as of the last render
    locationDataRef, \* locationDataRef.current: "null" | "coords"
    updateQueue,   \* setDataBatch calls React has not rendered yet
    flushEffect,   \* the run of the effect of lines 83-88 React still owes
    sent,          \* the batches handed to sendDataToServer, in order
    clock,         \* how many items recordDataBatch has made (Date.now())
    mounted,       \* whether the screen is mounted
    sessionName,   \* its sessionName state
    interval,      \* the timer of line 76 and the sessionName its callback sees
    subscription,  \* the three ...Subscription states: "null" | "sub"
    listeners,     \* per sensor, how many native subscriptions are active
    watching,      \* watchPositionAsync calls that have not resolved yet
    started        \* the last press of Start Recording: which, name, clock

reconVars  == <<measurements, rpc, positions, error>>
interpVars == <<points, gridSize, radius, x, y, grid, ipc>>
doubleVars == <<xDouble, yDouble>>
getVars    == <<store, gpc, sessions, tasks, paths, response>>
homeVars   == <<home>>
batchVars  == <<dataBatch, updateQueue, flushEffect, sent>>
sensorVars == <<subscription, listeners, watching>>
mobileVars == <<isRecording, dataBatch, locationDataRef, updateQueue,
                flushEffect, sent, clock,
                mounted, sessionName, interval, subscription, listeners,
                watching, started>>
vars == <<measurements, rpc, positions, error,
          points, gridSize, radius, x, y, grid, ipc, xDouble, yDouble,
          store, gpc, sessions, tasks, paths, response,
          home,
          isRecording, dataBatch, locationDataRef, updateQueue, flushEffect,
          sent, clock,
          mounted, sessionName, interval, subscription, listeners, watching,
          started>>

---------------------------------------------------------------------------
(* Bounds of the model *)

MaxN == 3        \* longest measurement sequence handed to the reconstructor
MaxPoints == 2   \* most positions handed to the interpolator
MaxCoord == 2    \* input positions have x, y in 0..MaxCoord (units of 2^-17)
MaxGridSize == 2 \* gridSize is drawn from 1..MaxGridSize
MaxRows == 3     \* most rows of the measurements table

(* Program constants *)

MsPerSecond == 1000    \* interpolation.ts:58  "/ 1000; // Convert to seconds"

PosScale == MsPerSecond * MsPerSecond   \* model units per coordinate unit

\* turf.distance(.., {units: 'meters'}) is the great-circle distance between
\* two [longitude, latitude] points given in degrees, on a sphere of radius
\* 6371008.8 m: 111195 m per degree, 848 mm per 2^-17 degree.
MmPerUnit == 848

---------------------------------------------------------------------------
(* Inputs *)

SessionNames == {"A", "B"}
Timestamps   == {0, 1000, 2000}
Magnitudes   == {10, 20}
\* acceleration vectors <<ax, ay, az>>
Accelerations == {<<0, 0, 0>>, <<1, 0, 0>>, <<0, 1, 0>>, <<0, 0, 1>>}

\* The fields of a Measurement the core reads (lib/types Measurement).
Measurement(s) ==
    { [timestamp |-> t, session_name |-> s,
       acceleration_x |-> a[1], acceleration_y |-> a[2], acceleration_z |-> a[3],
       magnetic_magnitude |-> m] :
         t \in Timestamps, a \in Accelerations, m \in Magnitudes }

\* All single-session measurement sequences of length 0..MaxN.
SessionInputs ==
    UNION { UNION { [1..n -> Measurement(s)] : n \in 0..MaxN } : s \in SessionNames }

---------------------------------------------------------------------------
(* getPositionFromAcceleration, interpolation.ts:47-84 *)

\* Lines 50-53: the locals before the forEach.  measurements[0].timestamp is
\* read here; the caller below has already dealt with the empty array.
initialLocals(ms) ==
    [ positions |-> <<>>,
      vx |-> 0, vy |-> 0, vz |-> 0,
      px |-> 0, py |-> 0, pz |-> 0,
      lastTimestamp |-> ms[1].timestamp ]

\* Mutants of the callback (each a plausible slip in lines 55-81).
forEachBody_NoSkip(st, measurement, index) ==
    LET dt == measurement.timestamp - st.lastTimestamp
        vx == st.vx + measurement.acceleration_x * dt
        vy == st.vy + measurement.acceleration_y * dt
        vz == st.vz + measurement.acceleration_z * dt
        px == st.px + vx * dt
        py == st.py + vy * dt
        pz == st.pz + vz * dt
    IN  [ positions |-> Append(st.positions,
             [ x |-> px, y |-> py, z |-> pz,
               timestamp |-> measurement.timestamp,
               session_name |-> measurement.session_name,
               magnetic_magnitude |-> measurement.magnetic_magnitude ]),
          vx |-> vx, vy |-> vy, vz |-> vz,
          px |-> px, py |-> py, pz |-> pz,
          lastTimestamp |-> measurement.timestamp ]

forEachBody_Unshift(st, measurement, index) ==
    IF index = 0
    THEN st
    ELSE
      LET dt == measurement.timestamp - st.lastTimestamp
          vx == st.vx + measurement.acceleration_x * dt
          vy == st.vy + measurement.acceleration_y * dt
          vz == st.vz + measurement.acceleration_z * dt
          px == st.px + vx * dt
          py == st.py + vy * dt
          pz == st.pz + vz * dt
      IN  [ positions |-> <<[ x |-> px, y |-> py, z |-> pz,
                 timestamp |-> measurement.timestamp,
                 session_name |-> measurement.session_name,
                 magnetic_magnitude |-> measurement.magnetic_magnitude ]>>
                 \o st.positions,
            vx |-> vx, vy |-> vy, vz |-> vz,
            px |-> px, py |-> py, pz |-> pz,
            lastTimestamp |-> measurement.timestamp ]

forEachBody_ExplicitEuler(st, measurement, index) ==
    IF index = 0
    THEN st
    ELSE
      LET dt == measurement.timestamp - st.lastTimestamp
          px == st.px + st.vx * dt
          py == st.py + st.vy * dt
          pz == st.pz + st.vz * dt
          vx == st.vx + measurement.acceleration_x * dt
          vy == st.vy + measurement.acceleration_y * dt
          vz == st.vz + measurement.acceleration_z * dt
      IN  [ positions |-> Append(st.positions,
               [ x |-> px, y |-> py, z |-> pz,
                 timestamp |-> measurement.timestamp,
                 session_name |-> measurement.session_name,
                 magnetic_magnitude |-> measurement.magnetic_magnitude ]),
            vx |-> vx, vy |-> vy, vz |-> vz,
            px |-> px, py |-> py, pz |-> pz,
            lastTimestamp |-> measurement.timestamp ]

forEachBody_PlusDt(st, measurement, index) ==
    IF index = 0
    THEN st
    ELSE
      LET dt == measurement.timestamp - st.lastTimestamp
          vx == st.vx + (measurement.acceleration_x * MsPerSecond + dt)
          vy == st.vy + (measurement.acceleration_y * MsPerSecond + dt)
          vz == st.vz + (measurement.acceleration_z * MsPerSecond + dt)
          px == st.px + vx * dt
          py == st.py + vy * dt
          pz == st.pz + vz * dt
      IN  [ positions |-> Append(st.positions,
               [ x |-> px, y |-> py, z |-> pz,
                 timestamp |-> measurement.timestamp,
                 session_name |-> measurement.session_name,
                 magnetic_magnitude |-> measurement.magnetic_magnitude ]),
            vx |-> vx, vy |-> vy, vz |-> vz,
            px |-> px, py |-> py, pz |-> pz,
            lastTimestamp |-> measurement.timestamp ]

forEachBody_LastTimestamp(st, measurement, index) ==
    IF index = 0
    THEN st
    ELSE
      LET dt == measurement.timestamp - st.lastTimestamp
          vx == st.vx + measurement.acceleration_x * dt
          vy == st.vy + measurement.acceleration_y * dt
          vz == st.vz + measurement.acceleration_z * dt
          px == st.px + vx * dt
          py == st.py + vy * dt
          pz == st.pz + vz * dt
      IN  [ positions |-> Append(st.positions,
               [ x |-> px, y |-> py, z |-> pz,
                 timestamp |-> st.lastTimestamp,
                 session_name |-> measurement.session_name,
                 magnetic_magnitude |-> measurement.magnetic_magnitude ]),
            vx |-> vx, vy |-> vy, vz |-> vz,
            px |-> px, py |-> py, pz |-> pz,
            lastTimestamp |-> measurement.timestamp ]

forEachBody_ClampDt(st, measurement, index) ==
    IF index = 0
    THEN st
    ELSE
      LET raw == measurement.timestamp - st.lastTimestamp
          dt == IF raw < 0 THEN 0 ELSE raw
          vx == st.vx + measurement.acceleration_x * dt
          vy == st.vy + measurement.acceleration_y * dt
          vz == st.vz + measurement.acceleration_z * dt
          px == st.px + vx * dt
          py == st.py + vy * dt
          pz == st.pz + vz * dt
      IN  [ positions |-> Append(st.positions,
               [ x |-> px, y |-> py, z |-> pz,
                 timestamp |-> measurement.timestamp,
                 session_name |-> measurement.session_name,
                 magnetic_magnitude |-> measurement.magnetic_magnitude ]),
            vx |-> vx, vy |-> vy, vz |-> vz,
            px |-> px, py |-> py, pz |-> pz,
            lastTimestamp |-> measurement.timestamp ]

\* The callback of measurements.forEach, lines 55-81.  index is the
\* JavaScript (0-based) index.
forEachBody(st, measurement, index) ==
    IF index = 0
    THEN st                                                   \* line 56
    ELSE
      LET dt == measurement.timestamp - st.lastTimestamp      \* line 58 (x1000)
          vx == st.vx + measurement.acceleration_x * dt       \* line 62
          vy == st.vy + measurement.acceleration_y * dt       \* line 63
          vz == st.vz + measurement.acceleration_z * dt       \* line 64
          px == st.px + vx * dt                               \* line 67
          py == st.py + vy * dt                               \* line 68
          pz == st.pz + vz * dt                               \* line 69
      IN  [ positions |-> Append(st.positions,                \* lines 71-78
               [ x |-> px, y |-> py, z |-> pz,
                 timestamp |-> measurement.timestamp,
                 session_name |-> measurement.session_name,
                 magnetic_magnitude |-> measurement.magnetic_magnitude ]),
            vx |-> vx, vy |-> vy, vz |-> vz,
            px |-> px, py |-> py, pz |-> pz,
            lastTimestamp |-> measurement.timestamp ]         \* line 80

\* Array.prototype.forEach: the callback on every element, in index order.
RECURSIVE forEach(_, _, _)
forEach(st, ms, i) ==
    IF i > Len(ms) THEN st
    ELSE forEach(forEachBody(st, ms[i], i - 1), ms, i + 1)

\* Mutant: measurements[0]?.timestamp, which reads undefined without raising.
getPositionFromAcceleration_OptionalChaining(ms) ==
    IF Len(ms) = 0
    THEN [ thrown |-> FALSE, error |-> "none", positions |-> <<>> ]
    ELSE [ thrown |-> FALSE, error |-> "none",
           positions |-> forEach(initialLocals(ms), ms, 1).positions ]

\* The whole call.  On an empty array measurements[0] is undefined and line 53
\* reads .timestamp of it: the engine raises a TypeError out of the call.
getPositionFromAcceleration(ms) ==
    IF Len(ms) = 0
    THEN [ thrown |-> TRUE, error |-> "TypeError", positions |-> <<>> ]
    ELSE [ thrown |-> FALSE, error |-> "none",
           positions |-> forEach(initialLocals(ms), ms, 1).positions ]  \* line 83

---------------------------------------------------------------------------
(* The reconstructor called once on an arbitrary single-session input *)

\* The parts of the program a specification does not run stay as they are.
NoResponse == [status |-> 0, body |-> <<>>]

GetIdle ==
    /\ store = <<>>
    /\ gpc = "idle"
    /\ sessions = <<>>
    /\ tasks = <<>>
    /\ paths = <<>>
    /\ response = NoResponse

\* The loops are followed in exact arithmetic: xDouble and yDouble are unused.
NoDouble == <<0, 0, 0>>

DoubleIdle ==
    /\ xDouble = NoDouble
    /\ yDouble = NoDouble

(* Program constants of the Home page and its ControlPanel; a radius is
   held in millimetres. *)

DefaultGridSize == 50      \* useState(50)
DefaultRadius == 1000      \* useState(1.0)
GridSizeMin == 10          \* min="10"
GridSizeMax == 100         \* max="100"
GridSizeStep == 1          \* no step attribute: the default step of a range input
RadiusMin == 100           \* min="0.1"
RadiusMax == 5000          \* max="5"
RadiusStep == 100          \* step="0.1"

\* Home as it mounts: the five useState calls.  error is the string "null"
\* while the state holds null.
HomeMounted ==
    [ paths |-> <<>>, loading |-> TRUE, error |-> "null",
      gridSize |-> DefaultGridSize, radius |-> DefaultRadius ]

\* The page is not open in this specification.
HomeIdle == home = HomeMounted

\* No run of the flush effect is owed.
NoEffect == [pending |-> FALSE, dataBatch |-> <<>>]

\* No timer is set (line 74: interval is undefined).
NoInterval == [active |-> FALSE, sessionName |-> ""]

\* Lines 26-31: the three subscription states start as null.
NoSubscription ==
    [magnetometer |-> "null", accelerometer |-> "null", location |-> "null"]

\* No native subscription is active.
NoListeners == [magnetometer |-> 0, accelerometer |-> 0, location |-> 0]

\* MagnetometerScreen once mounted (lines 18-47) and its mount effects run:
\* not recording, an empty batch, no location yet.
MobileMounted ==
    /\ isRecording = FALSE
    /\ dataBatch = <<>>
    /\ locationDataRef = "null"
    /\ updateQueue = <<>>
    /\ flushEffect = NoEffect
    /\ sent = <<>>
    /\ clock = 0
    /\ mounted = TRUE
    /\ sessionName = ""
    /\ interval = NoInterval
    /\ subscription = NoSubscription
    /\ listeners = NoListeners
    /\ watching = 0
    /\ started = [count |-> 0, session_name |-> "", clock |-> 0]

\* The screen is not used in this specification.
MobileIdle == MobileMounted

RestIdle == GetIdle /\ DoubleIdle /\ HomeIdle /\ MobileIdle

restVars == <<getVars, doubleVars, homeVars, mobileVars>>

\* What the loops in double arithmetic leave alone.
notInterpVars == <<reconVars, getVars, homeVars, mobileVars>>

ReconInit ==
    /\ measurements \in SessionInputs
    /\ rpc = "ready"
    /\ positions = <<>>
    /\ error = "none"

\* The interpolator is not called in this specification.
InterpIdle ==
    /\ points = <<>>
    /\ gridSize = 1
    /\ radius = 0
    /\ x = 0
    /\ y = 0
    /\ grid = <<>>
    /\ ipc = "idle"

Init == ReconInit /\ InterpIdle /\ RestIdle

Reconstruct ==
    /\ rpc = "ready"
    /\ LET r == getPositionFromAcceleration(measurements)
       IN  /\ rpc' = IF r.thrown THEN "thrown" ELSE "returned"
           /\ positions' = r.positions
           /\ error' = r.error
    /\ UNCHANGED measurements
    /\ UNCHANGED interpVars
    /\ UNCHANGED restVars

Next == Reconstruct

Spec == Init /\ [][Next]_vars

---------------------------------------------------------------------------
(* Claims about getPositionFromAcceleration, checked under Spec *)

N == Len(measurements)

Called == rpc \in {"returned", "thrown"}

NonDecreasingInput ==
    \A i \in 1..(N - 1) : measurements[i].timestamp <= measurements[i + 1].timestamp

StrictlyIncreasingInput ==
    \A i \in 1..(N - 1) : measurements[i].timestamp < measurements[i + 1].timestamp

\* C1: for every input of N >= 1 measurements the call returns, and it returns
\* exactly N-1 positions (none for N = 1): the first measurement yields no
\* position and every later one yields exactly one.
C1_LengthIsNMinusOne ==
    (N >= 1 /\ Called) =>
        /\ rpc = "returned"
        /\ Len(positions) = N - 1
        /\ (N = 1 => positions = <<>>)

C1_Witness ==
    /\ rpc = "returned"
    /\ N = MaxN
    /\ Len(positions) = MaxN - 1

C1_WitnessSingle ==
    rpc = "returned" /\ N = 1 /\ positions = <<>>

\* C2 (as claimed): with non-decreasing input timestamps, each returned
\* position's timestamp is strictly greater than that of the position before.
C2_StrictlyOrdered ==
    (rpc = "returned" /\ N >= 2 /\ NonDecreasingInput) =>
        \A k \in 1..(Len(positions) - 1) :
            positions[k].timestamp < positions[k + 1].timestamp

\* C2 (amended): with non-decreasing input timestamps the returned positions
\* are in non-decreasing timestamp order, and in strictly increasing order
\* when the input timestamps are strictly increasing.
C2_Ordered ==
    (rpc = "returned" /\ N >= 2) =>
        /\ NonDecreasingInput =>
             \A k \in 1..(Len(positions) - 1) :
                 positions[k].timestamp <= positions[k + 1].timestamp
        /\ StrictlyIncreasingInput =>
             \A k \in 1..(Len(positions) - 1) :
                 positions[k].timestamp < positions[k + 1].timestamp

C2_Witness ==
    /\ rpc = "returned"
    /\ N = 3
    /\ NonDecreasingInput
    /\ Len(positions) = 2
    /\ positions[1].timestamp = positions[2].timestamp

\* The recurrence of the claim, by measurement number i (1-based; measurement
\* 1 is the claim's measurement 0), one component c at a time.
Acc(m, c) ==
    CASE c = "x" -> m.acceleration_x
      [] c = "y" -> m.acceleration_y
      [] c = "z" -> m.acceleration_z

DtOf(ms, i) == ms[i].timestamp - ms[i - 1].timestamp     \* dt_i * 1000

RECURSIVE Vel(_, _, _)
Vel(ms, i, c) ==
    IF i = 1 THEN 0 ELSE Vel(ms, i - 1, c) + Acc(ms[i], c) * DtOf(ms, i)

RECURSIVE Pos(_, _, _)
Pos(ms, i, c) ==
    IF i = 1 THEN 0 ELSE Pos(ms, i - 1, c) + Vel(ms, i, c) * DtOf(ms, i)

WithFirstAcceleration(ms, a) ==
    [ms EXCEPT ![1].acceleration_x = a[1],
               ![1].acceleration_y = a[2],
               ![1].acceleration_z = a[3]]

\* C3: the k-th returned position is p_(k+1) of the semi-implicit Euler
\* recurrence v_i = v_(i-1) + a_i*dt_i, p_i = p_(i-1) + v_i*dt_i started from
\* v = p = 0 with dt_i = (timestamp_i - timestamp_(i-1))/1000, and the
\* acceleration of the first measurement changes no output.
C3_SemiImplicitEuler ==
    rpc = "returned" =>
        /\ \A k \in 1..Len(positions) :
              /\ positions[k].x = Pos(measurements, k + 1, "x")
              /\ positions[k].y = Pos(measurements, k + 1, "y")
              /\ positions[k].z = Pos(measurements, k + 1, "z")
        /\ \A a \in Accelerations :
              getPositionFromAcceleration(
                  WithFirstAcceleration(measurements, a)).positions = positions

\* Two steps of one second with acceleration (1,0,0) on both: semi-implicit
\* Euler gives x = 1 then x = 3, explicit Euler would give 0 then 1.
C3_Witness ==
    /\ rpc = "returned"
    /\ N = 3
    /\ \A i \in 2..3 : /\ measurements[i].acceleration_x = 1
                       /\ DtOf(measurements, i) = MsPerSecond
    /\ measurements[1].acceleration_x = 1
    /\ positions[1].x = 1 * PosScale
    /\ positions[2].x = 3 * PosScale

\* The scenario of C4: session A, t=0 (0,0,0), t=1000 (1,0,0) mag 10,
\* t=2000 (0,1,0) mag 20.
IsScenarioA ==
    /\ N = 3
    /\ \A i \in 1..3 : measurements[i].session_name = "A"
    /\ measurements[1].timestamp = 0
    /\ measurements[2].timestamp = 1000
    /\ measurements[3].timestamp = 2000
    /\ <<measurements[1].acceleration_x, measurements[1].acceleration_y,
         measurements[1].acceleration_z>> = <<0, 0, 0>>
    /\ <<measurements[2].acceleration_x, measurements[2].acceleration_y,
         measurements[2].acceleration_z>> = <<1, 0, 0>>
    /\ <<measurements[3].acceleration_x, measurements[3].acceleration_y,
         measurements[3].acceleration_z>> = <<0, 1, 0>>
    /\ measurements[2].magnetic_magnitude = 10
    /\ measurements[3].magnetic_magnitude = 20

\* A position as the scenario writes it: {x, y, z, mag} in coordinate units.
PathEntry(p) ==
    [ x |-> p.x, y |-> p.y, z |-> p.z, mag |-> p.magnetic_magnitude ]

ScaledEntry(px, py, pz, m) ==
    [ x |-> px * PosScale, y |-> py * PosScale, z |-> pz * PosScale, mag |-> m ]

\* C4 (as claimed): the scenario returns [{1,0,0,mag 10}, {1,1,0,mag 20}].
C4_Scenario ==
    (rpc = "returned" /\ IsScenarioA) =>
        /\ Len(positions) = 2
        /\ PathEntry(positions[1]) = ScaledEntry(1, 0, 0, 10)
        /\ PathEntry(positions[2]) = ScaledEntry(1, 1, 0, 20)

\* C4 (amended): the scenario returns [{1,0,0,mag 10}, {2,1,0,mag 20}]: the
\* velocity (1,0,0) of the first step is kept and integrated in the second.
C4_ScenarioAmended ==
    (rpc = "returned" /\ IsScenarioA) =>
        /\ Len(positions) = 2
        /\ PathEntry(positions[1]) = ScaledEntry(1, 0, 0, 10)
        /\ PathEntry(positions[2]) = ScaledEntry(2, 1, 0, 20)

C4_Witness == rpc = "returned" /\ IsScenarioA

ZeroAcceleration ==
    \A i \in 1..N :
        /\ measurements[i].acceleration_x = 0
        /\ measurements[i].acceleration_y = 0
        /\ measurements[i].acceleration_z = 0

\* C5: if every measurement has acceleration (0,0,0), every returned position
\* is (0,0,0), whatever the timestamps.
C5_ZeroAcceleration ==
    (rpc = "returned" /\ ZeroAcceleration) =>
        \A k \in 1..Len(positions) :
            positions[k].x = 0 /\ positions[k].y = 0 /\ positions[k].z = 0

\* Timestamps 1000, 2000, 0: an increasing step, then a decreasing one.
C5_Witness ==
    /\ rpc = "returned"
    /\ ZeroAcceleration
    /\ N = 3
    /\ measurements[1].timestamp < measurements[2].timestamp
    /\ measurements[3].timestamp < measurements[2].timestamp
    /\ Len(positions) = 2

\* C6: the k-th returned position carries the timestamp, session_name and
\* magnetic_magnitude of measurement k+1, and the magnetic_magnitude of the
\* first measurement changes no output.
C6_MetadataCopied ==
    rpc = "returned" =>
        /\ \A k \in 1..Len(positions) :
              /\ positions[k].timestamp = measurements[k + 1].timestamp
              /\ positions[k].session_name = measurements[k + 1].session_name
              /\ positions[k].magnetic_magnitude
                     = measurements[k + 1].magnetic_magnitude
        /\ \A m \in Magnitudes :
              getPositionFromAcceleration(
                  [measurements EXCEPT ![1].magnetic_magnitude = m]).positions
                = positions

\* The first measurement's magnitude (20) differs from every later one (10),
\* and the timestamps differ from one measurement to the next.
C6_Witness ==
    /\ rpc = "returned"
    /\ N = 3
    /\ measurements[1].magnetic_magnitude = 20
    /\ measurements[2].magnetic_magnitude = 10
    /\ measurements[3].magnetic_magnitude = 10
    /\ measurements[1].timestamp # measurements[2].timestamp
    /\ measurements[2].timestamp # measurements[3].timestamp
    /\ \A k \in 1..Len(positions) : positions[k].magnetic_magnitude = 10

\* C7: a call with an empty measurement sequence raises an error at the call
\* and returns no position sequence.
C7_EmptyInputThrows ==
    (N = 0 /\ Called) =>
        /\ rpc = "thrown"
        /\ error # "none"
        /\ positions = <<>>

C7_Witness ==
    N = 0 /\ rpc = "thrown" /\ error = "TypeError"

\* The coordinates of the position before the k-th returned one: the origin
\* for the first.
PreviousPoint(k) ==
    IF k = 1 THEN <<0, 0, 0>>
    ELSE <<positions[k - 1].x, positions[k - 1].y, positions[k - 1].z>>

\* C17: timestamps that are unsorted or repeated are not rejected and dt is
\* not clamped: a call on N >= 1 measurements returns N - 1 positions of the
\* recurrence with dt_i = (timestamp_i - timestamp_(i-1))/1000 as it is; a
\* step with dt_i = 0 emits the previous position again, and a step with
\* dt_i < 0 moves the position by v_i*dt_i with v_i = v_(i-1) + a_i*dt_i.
C17_DtNotClamped ==
    (N >= 1 /\ Called) =>
        /\ rpc = "returned"
        /\ Len(positions) = N - 1
        /\ \A k \in 1..Len(positions) :
              LET dt == DtOf(measurements, k + 1)
                  at == <<positions[k].x, positions[k].y, positions[k].z>>
              IN  /\ at = << Pos(measurements, k + 1, "x"),
                             Pos(measurements, k + 1, "y"),
                             Pos(measurements, k + 1, "z") >>
                  /\ dt = 0 => at = PreviousPoint(k)
                  /\ dt < 0 =>
                        at = << PreviousPoint(k)[1]
                                  + Vel(measurements, k + 1, "x") * dt,
                                PreviousPoint(k)[2]
                                  + Vel(measurements, k + 1, "y") * dt,
                                PreviousPoint(k)[3]
                                  + Vel(measurements, k + 1, "z") * dt >>

\* Timestamps such as 1000, 0, 0 with acceleration (1,0,0) on the second
\* measurement: the step with dt = -1 gives v = -1 and x = 1, and the step
\* with dt = 0 emits the same position again.
C17_Witness ==
    /\ rpc = "returned"
    /\ N = 3
    /\ DtOf(measurements, 2) < 0
    /\ DtOf(measurements, 3) = 0
    /\ positions[1].x > 0
    /\ positions[2].x = positions[1].x

---------------------------------------------------------------------------
(* interpolateMagneticField, interpolation.ts:5-44 *)

Radii == {500, 2000}       \* radius 0.5 m and 2.0 m, in millimetres

\* What line 10-13 keeps of a Position: [x, y] and properties.magnitude.
Point ==
    { [x |-> px, y |-> py, magnitude |-> m] :
         px \in 0..MaxCoord, py \in 0..MaxCoord, m \in Magnitudes }

\* The pool of positions of a call; the empty pool is the one of no session
\* and of sessions of a single measurement each.
PointInputs == UNION { [1..n -> Point] : n \in 0..MaxPoints }

\* The model follows a call for at most MaxCells pushed cells: as many as
\* the largest lattice of a bounding box of positive width holds.  A call
\* whose loops do not end goes on pushing in the code.
MaxCells == (MaxGridSize + 1) * (MaxCoord * MaxGridSize + 1)

\* The value x and y hold when the JavaScript number is Infinity or NaN: it
\* fails every "<=" test against a bound and absorbs every addition.  It lies
\* above every finite value the loop variables take.
NonFinite == MaxCells + 1

\* -Infinity: it lies below every finite value and below NonFinite.
MinusInfinity == 0 - NonFinite

Min(S) == CHOOSE v \in S : \A w \in S : v <= w
Max(S) == CHOOSE v \in S : \A w \in S : v >= w

\* Mutant: the bounding box of no feature is the single point (0, 0).
bbox_EmptyAtOrigin(pts) ==
    LET xs == { pts[i].x : i \in 1..Len(pts) }
        ys == { pts[i].y : i \in 1..Len(pts) }
    IN  IF pts = <<>>
        THEN << 0, 0, 0, 0 >>
        ELSE << Min(xs), Min(ys), Max(xs), Max(ys) >>

\* turf.bbox (line 16): <<minX, minY, maxX, maxY>>; bounds[k] of the code is
\* bbox(pts)[k + 1].  turf.bbox starts from [Infinity, Infinity, -Infinity,
\* -Infinity] and widens it by every coordinate, so that is what it returns
\* for a collection of no feature.
bbox(pts) ==
    LET xs == { pts[i].x : i \in 1..Len(pts) }
        ys == { pts[i].y : i \in 1..Len(pts) }
    IN  IF pts = <<>>
        THEN << NonFinite, NonFinite, MinusInfinity, MinusInfinity >>
        ELSE << Min(xs), Min(ys), Max(xs), Max(ys) >>

\* Line 17, times gridSize: cellSize = (bounds[2] - bounds[0]) / gridSize, so
\* cellSize * gridSize is the width of the bounding box.
cellSizeTimesGridSize(pts) ==
    IF pts = <<>>
    THEN MinusInfinity                   \* -Infinity - Infinity
    ELSE bbox(pts)[3] - bbox(pts)[1]

\* Lines 24-29: turf.distance(turf.point([x, y]), point, {units: 'meters'})
\* <= radius, for the lattice point (lx/g, ly/g).  For points a few 2^-17
\* degree apart near the origin the great-circle distance is MmPerUnit
\* millimetres times the planar distance, so the test is
\*   MmPerUnit * sqrt(dx^2 + dy^2) / g <= r, squared to stay in the integers.
withinRadius(lx, ly, point, g, r) ==
    LET dx == lx - point.x * g
        dy == ly - point.y * g
    IN  /\ r >= 0            \* a distance is never below zero
        /\ MmPerUnit * MmPerUnit * (dx * dx + dy * dy) <= (r * g) * (r * g)

\* Lines 23-30: points.filter(...).
nearbyPoints(lx, ly, pts, g, r) ==
    SelectSeq(pts, LAMBDA point : withinRadius(lx, ly, point, g, r))

\* Lines 33-35: reduce((sum, point) => sum + point.properties.magnitude, 0).
RECURSIVE reduceSum(_, _, _)
reduceSum(near, i, sum) ==
    IF i > Len(near) THEN sum
    ELSE reduceSum(near, i + 1, sum + near[i].magnitude)

\* Mutant: the cell is pushed without the nearbyPoints.length > 0 test.
loopBody_NoGuard(g0, lx, ly, pts, g, r) ==
    LET near == nearbyPoints(lx, ly, pts, g, r)
        avgMagnitude == [num |-> reduceSum(near, 1, 0), den |-> Len(near)]
    IN  Append(g0, [x |-> lx, y |-> ly, value |-> avgMagnitude])

\* Lines 23-39: the body of the inner loop, from the grid g0 so far to the
\* grid after it.
loopBody(g0, lx, ly, pts, g, r) ==
    LET near == nearbyPoints(lx, ly, pts, g, r)
        avgMagnitude == [num |-> reduceSum(near, 1, 0), den |-> Len(near)]
    IN  IF Len(near) > 0                                         \* line 32
        THEN Append(g0, [x |-> lx, y |-> ly, value |-> avgMagnitude])
        ELSE g0

\* x and y are held multiplied by |gridSize|; with gridSize = 0 cellSize is no
\* finite number and they are held as they are.
scale(g) == IF g > 0 THEN g ELSE IF g < 0 THEN 0 - g ELSE 1

\* A bound in the units of x and y: Infinity and -Infinity stay what they are.
timesScale(v, g) ==
    IF v = NonFinite \/ v = MinusInfinity THEN v ELSE v * scale(g)

\* Line 17, cellSize = (bounds[2] - bounds[0]) / gridSize, times scale(g):
\* the width for gridSize > 0, minus the width for gridSize < 0, and for
\* gridSize = 0 Infinity (width > 0) or NaN (0 / 0).
cellStep(pts, g) ==
    IF g > 0 THEN cellSizeTimesGridSize(pts)
    ELSE IF g < 0 THEN 0 - cellSizeTimesGridSize(pts)
    ELSE NonFinite

\* v += step of lines 21 and 22.
advance(v, step) ==
    IF v = NonFinite \/ step = NonFinite THEN NonFinite ELSE v + step

ReconIdle ==
    /\ measurements = <<>>
    /\ rpc = "idle"
    /\ positions = <<>>
    /\ error = "none"

InterpInit ==
    /\ ReconIdle
    /\ RestIdle
    /\ points \in PointInputs
    /\ gridSize \in 1..MaxGridSize
    /\ radius \in Radii
    /\ x = 0
    /\ y = 0
    /\ grid = <<>>
    /\ ipc = "start"

\* Lines 10-21: bounds, cellSize, the empty grid, and "let x = bounds[0]".
InterpCall ==
    /\ ipc = "start"
    /\ grid' = <<>>
    /\ x' = timesScale(bbox(points)[1], gridSize)
    /\ ipc' = "outer"
    /\ UNCHANGED <<points, gridSize, radius, y>>
    /\ UNCHANGED reconVars
    /\ UNCHANGED restVars

\* Line 21, x <= bounds[2] holds: enter the inner loop with y = bounds[1].
OuterEnter ==
    /\ ipc = "outer"
    /\ x <= timesScale(bbox(points)[3], gridSize)
    /\ y' = timesScale(bbox(points)[2], gridSize)
    /\ ipc' = "inner"
    /\ UNCHANGED <<points, gridSize, radius, x, grid>>
    /\ UNCHANGED reconVars
    /\ UNCHANGED restVars

\* Line 21, x <= bounds[2] fails: line 43, return grid.
InterpReturn ==
    /\ ipc = "outer"
    /\ ~(x <= timesScale(bbox(points)[3], gridSize))
    /\ ipc' = "done"
    /\ UNCHANGED <<points, gridSize, radius, x, y, grid>>
    /\ UNCHANGED reconVars
    /\ UNCHANGED restVars

\* Line 22, y <= bounds[3] holds: the body, then y += cellSize.
InnerBody ==
    /\ ipc = "inner"
    /\ y <= timesScale(bbox(points)[4], gridSize)
    /\ Len(grid) < MaxCells     \* the model follows a loop without end
    /\ y > 0 - MaxCells         \* only this far
    /\ grid' = loopBody(grid, x, y, points, scale(gridSize), radius)
    /\ y' = advance(y, cellStep(points, gridSize))
    /\ UNCHANGED <<points, gridSize, radius, x, ipc>>
    /\ UNCHANGED reconVars
    /\ UNCHANGED restVars

\* Line 22, y <= bounds[3] fails: leave the inner loop, x += cellSize.
InnerExit ==
    /\ ipc = "inner"
    /\ ~(y <= timesScale(bbox(points)[4], gridSize))
    /\ x' = advance(x, cellStep(points, gridSize))
    /\ ipc' = "outer"
    /\ UNCHANGED <<points, gridSize, radius, y, grid>>
    /\ UNCHANGED reconVars
    /\ UNCHANGED restVars

InterpNext ==
    \/ InterpCall
    \/ OuterEnter
    \/ InterpReturn
    \/ InnerBody
    \/ InnerExit

InterpSpec == InterpInit /\ [][InterpNext]_vars

\* The same call with arguments the signature allows and the contract
\* forbids: gridSize and radius of any sign.
AnyRadii == Radii \cup {0, 0 - 500}

InterpAnyInit ==
    /\ ReconIdle
    /\ RestIdle
    /\ points \in PointInputs
    /\ gridSize \in (0 - 1)..MaxGridSize
    /\ radius \in AnyRadii
    /\ x = 0
    /\ y = 0
    /\ grid = <<>>
    /\ ipc = "start"

InterpAnySpec == InterpAnyInit /\ [][InterpNext]_vars

---------------------------------------------------------------------------
(* The loops of lines 21 and 22 in IEEE double arithmetic                  *)
(*                                                                         *)
(* x and y are JavaScript numbers: cellSize is the double nearest to       *)
(* (bounds[2] - bounds[0]) / gridSize and every x += cellSize, y += cellSize *)
(* rounds its sum to the nearest double (ties to even).  A double d with   *)
(* 0 <= d < 8 coordinate units that is a multiple of 2^-56 is held as the  *)
(* integer d * 2^56, written in three limbs <<h, m, l>> of 20 bits:        *)
(* d * 2^56 = h * 2^40 + m * 2^20 + l.  The doubles met below are 0, the   *)
(* whole numbers 1..MaxCoord, quotients >= 1/16 and sums of these, all     *)
(* multiples of 2^-56.  Scaling every coordinate by 2^-17 changes the      *)
(* exponent of each double and none of the roundings.                      *)

LimbBase == 2 ^ 20
Significand == 2 ^ 13    \* h >= 2^13 exactly when d * 2^56 >= 2^53

\* Carries brought back into the limbs.
limbs(h, m, l) ==
    LET m2 == m + l \div LimbBase
    IN  << h + m2 \div LimbBase, m2 % LimbBase, l % LimbBase >>

\* Number(n) for a whole number n.
toDouble(n) == << n * 2 ^ 16, 0, 0 >>

\* a <= b on doubles.
doubleLeq(a, b) ==
    \/ a[1] < b[1]
    \/ a[1] = b[1] /\ a[2] < b[2]
    \/ a[1] = b[1] /\ a[2] = b[2] /\ a[3] <= b[3]

\* The number of low bits of v that do not fit the 53-bit significand.
droppedBits(v) ==
    IF v[1] < Significand THEN 0
    ELSE CHOOSE k \in 1..6 :
             /\ Significand * 2 ^ (k - 1) <= v[1]
             /\ v[1] < Significand * 2 ^ k

\* Round to nearest, ties to even: the double nearest to v + rem/den, with
\* 0 <= rem < den.
roundToDouble(v, rem, den) ==
    LET q    == 2 ^ droppedBits(v)
        low  == v[3] % q
        down == << v[1], v[2], v[3] - low >>
        up   == limbs(v[1], v[2], v[3] - low + q)
        odd  == (v[3] \div q) % 2 = 1
        twiceTail == 2 * (low * den + rem)
    IN  IF twiceTail < q * den THEN down
        ELSE IF twiceTail > q * den THEN up
        ELSE IF odd THEN up ELSE down

\* a + b of two doubles.
doubleAdd(a, b) ==
    roundToDouble(limbs(a[1] + b[1], a[2] + b[2], a[3] + b[3]), 0, 1)

\* w / g of two whole numbers, 0 <= w and 16 * w >= g >= 1 when w > 0: long
\* division of w * 2^56 by g, limb by limb, then the rounding.
doubleDiv(w, g) ==
    LET n  == w * 2 ^ 16
        qh == n \div g
        r1 == n % g
        qm == (r1 * LimbBase) \div g
        r2 == (r1 * LimbBase) % g
        ql == (r2 * LimbBase) \div g
        r3 == (r2 * LimbBase) % g
    IN  roundToDouble(<< qh, qm, ql >>, r3, g)

\* Line 17 as the code computes it.
cellSize(pts, g) == doubleDiv(bbox(pts)[3] - bbox(pts)[1], g)

MaxDoubleGridSize == 6    \* gridSize is drawn from 1..MaxDoubleGridSize here

\* A call on a bounding box of positive width, its loops followed in double
\* arithmetic.  xDouble and yDouble are the values x and y hold; x and y of
\* the model are the lattice point they stand for, minX + i*cellSize and
\* minY + j*cellSize without rounding (times gridSize), which is where the
\* radius test is evaluated and what the cell records: the two differ by a
\* few units of the last place, far less than any distance the test
\* compares.
InterpDoubleInit ==
    /\ ReconIdle
    /\ GetIdle
    /\ HomeIdle
    /\ MobileIdle
    /\ points \in { pts \in PointInputs : bbox(pts)[1] < bbox(pts)[3] }
    /\ gridSize \in 1..MaxDoubleGridSize
    /\ radius \in Radii
    /\ x = 0
    /\ y = 0
    /\ xDouble = NoDouble
    /\ yDouble = NoDouble
    /\ grid = <<>>
    /\ ipc = "start"

\* Lines 10-21: bounds, cellSize, the empty grid, and "let x = bounds[0]".
InterpCallDouble ==
    /\ ipc = "start"
    /\ grid' = <<>>
    /\ x' = bbox(points)[1] * gridSize
    /\ xDouble' = toDouble(bbox(points)[1])
    /\ ipc' = "outer"
    /\ UNCHANGED <<points, gridSize, radius, y, yDouble>>
    /\ UNCHANGED notInterpVars

\* Line 21, x <= bounds[2] holds: enter the inner loop with y = bounds[1].
OuterEnterDouble ==
    /\ ipc = "outer"
    /\ doubleLeq(xDouble, toDouble(bbox(points)[3]))
    /\ y' = bbox(points)[2] * gridSize
    /\ yDouble' = toDouble(bbox(points)[2])
    /\ ipc' = "inner"
    /\ UNCHANGED <<points, gridSize, radius, x, xDouble, grid>>
    /\ UNCHANGED notInterpVars

\* Line 21, x <= bounds[2] fails: line 43, return grid.
InterpReturnDouble ==
    /\ ipc = "outer"
    /\ ~doubleLeq(xDouble, toDouble(bbox(points)[3]))
    /\ ipc' = "done"
    /\ UNCHANGED <<points, gridSize, radius, x, y, xDouble, yDouble, grid>>
    /\ UNCHANGED notInterpVars

\* Line 22, y <= bounds[3] holds: the body, then y += cellSize.
InnerBodyDouble ==
    /\ ipc = "inner"
    /\ doubleLeq(yDouble, toDouble(bbox(points)[4]))
    /\ grid' = loopBody(grid, x, y, points, gridSize, radius)
    /\ y' = y + cellSizeTimesGridSize(points)
    /\ yDouble' = doubleAdd(yDouble, cellSize(points, gridSize))
    /\ UNCHANGED <<points, gridSize, radius, x, xDouble, ipc>>
    /\ UNCHANGED notInterpVars

\* Line 22, y <= bounds[3] fails: leave the inner loop, x += cellSize.
InnerExitDouble ==
    /\ ipc = "inner"
    /\ ~doubleLeq(yDouble, toDouble(bbox(points)[4]))
    /\ x' = x + cellSizeTimesGridSize(points)
    /\ xDouble' = doubleAdd(xDouble, cellSize(points, gridSize))
    /\ ipc' = "outer"
    /\ UNCHANGED <<points, gridSize, radius, y, yDouble, grid>>
    /\ UNCHANGED notInterpVars

InterpDoubleNext ==
    \/ InterpCallDouble
    \/ OuterEnterDouble
    \/ InterpReturnDouble
    \/ InnerBodyDouble
    \/ InnerExitDouble

InterpDoubleSpec == InterpDoubleInit /\ [][InterpDoubleNext]_vars


---------------------------------------------------------------------------
(* Claims about interpolateMagneticField, checked under InterpSpec *)

\* All input positions share one x: the bounding box has width 0.
DegenerateBBox == bbox(points)[1] = bbox(points)[3]

\* The lattice of a call, in the units of x and y: columns minX + i*cellSize
\* for i = 0..gridSize (the single column minX when cellSize = 0), rows
\* minY + j*cellSize up to maxY.
LatticeXs ==
    { bbox(points)[1] * gridSize + i * cellSizeTimesGridSize(points) :
          i \in 0..gridSize }

LatticeYs ==
    { ly \in { bbox(points)[2] * gridSize + j * cellSizeTimesGridSize(points) :
                   j \in 0..(MaxCoord * gridSize) } :
          ly <= bbox(points)[4] * gridSize }

\* The input positions within radius of the lattice point (lx, ly), by index.
Qualifying(lx, ly) ==
    { i \in 1..Len(points) : withinRadius(lx, ly, points[i], gridSize, radius) }

RECURSIVE SumOfMagnitudes(_)
SumOfMagnitudes(S) ==
    IF S = {} THEN 0
    ELSE LET i == CHOOSE j \in S : TRUE
         IN  points[i].magnitude + SumOfMagnitudes(S \ {i})

\* value = (sum of the magnitudes of S) / (number of elements of S)
IsMeanOver(value, S) ==
    /\ S # {}
    /\ value.den # 0
    /\ value.num * Cardinality(S) = value.den * SumOfMagnitudes(S)

CellsAt(lx, ly) ==
    { k \in 1..Len(grid) : grid[k].x = lx /\ grid[k].y = ly }

\* Every cell holds the mean over the positions qualifying at its point, which
\* is the mean over all input positions when all of them qualify.
CellsHoldTheMean ==
    \A k \in 1..Len(grid) :
        /\ IsMeanOver(grid[k].value, Qualifying(grid[k].x, grid[k].y))
        /\ Qualifying(grid[k].x, grid[k].y) = 1..Len(points)
              => IsMeanOver(grid[k].value, 1..Len(points))

\* No lattice point has two cells.
AtMostOneCellPerPoint ==
    \A k1, k2 \in 1..Len(grid) :
        (grid[k1].x = grid[k2].x /\ grid[k1].y = grid[k2].y) => k1 = k2

\* Once the call has returned, every lattice point with a qualifying
\* position has a cell.
EveryCoveredPointHasACell ==
    ipc = "done" =>
        \A lx \in LatticeXs : \A ly \in LatticeYs :
            Qualifying(lx, ly) # {} => CellsAt(lx, ly) # {}

\* C8: every visited lattice point with at least one qualifying position has
\* exactly one cell, whose value is the arithmetic mean of magnetic_magnitude
\* over the qualifying positions (over all input positions when all qualify).
C8_Coverage ==
    /\ CellsHoldTheMean
    /\ AtMostOneCellPerPoint
    /\ EveryCoveredPointHasACell

\* C8 holds of every call whose bounding box has positive width.
C8_CoverageOnPositiveWidth ==
    ~DegenerateBBox => C8_Coverage

C8_PositiveWidthWitness ==
    /\ ipc = "done"
    /\ \E k \in 1..Len(grid) :
          /\ Cardinality(Qualifying(grid[k].x, grid[k].y)) = 2
          /\ grid[k].value = [num |-> 30, den |-> 2]

\* C9: every cell of the grid has at least one input position within radius
\* of its point and a defined value (never 0/0), so a lattice point with no
\* position within radius has no cell.
C9_Sparsity ==
    /\ \A k \in 1..Len(grid) :
          /\ Qualifying(grid[k].x, grid[k].y) # {}
          /\ grid[k].value.den > 0
    /\ \A lx \in LatticeXs : \A ly \in LatticeYs :
          Qualifying(lx, ly) = {} => CellsAt(lx, ly) = {}

\* A returned grid that holds cells and skipped a lattice point.
C9_Witness ==
    /\ ipc = "done"
    /\ Len(grid) >= 1
    /\ \E lx \in LatticeXs : \E ly \in LatticeYs :
          Qualifying(lx, ly) = {} /\ CellsAt(lx, ly) = {}

\* C10: when all input positions share one x, the call terminates: every pass
\* of the inner loop moves y forward (y += cellSize with a constant cellSize
\* passes bounds[3] after finitely many passes exactly when cellSize > 0).
C10_DegenerateTerminates ==
    [][ (DegenerateBBox /\ ipc = "inner" /\ ipc' = "inner") => y' > y ]_vars

---------------------------------------------------------------------------
(* Claims about the arguments of interpolateMagneticField *)

\* C11: a call with gridSize <= 0 or radius <= 0 is rejected: it raises its
\* error before line 10, so it never reaches the loops ("outer", "inner") and
\* never returns a grid ("done").
C11_NonPositiveRejected ==
    (gridSize <= 0 \/ radius <= 0) => ipc \in {"start", "rejected"}

\* What the code does instead.  With gridSize = 0 or radius <= 0 it returns a
\* grid; with gridSize < 0 it never returns.
C11_ReturnsGridSilently ==
    /\ ipc = "done"
    /\ gridSize = 0
    /\ Len(grid) = 1

C11_NegativeGridSizeNeverReturns ==
    gridSize < 0 => ipc # "done"

---------------------------------------------------------------------------
(* GET /api/measurements, app/api/measurements/route.ts:7-40 *)

\* The rows of the table: id is the serial primary key, magnetic_magnitude is
\* 10 * id (every row has its own), the other columns are free.
RowChoices ==
    { [timestamp |-> t, session_name |-> sn, acceleration_x |-> a] :
         t \in {0, 1000}, sn \in SessionNames, a \in {0, 1} }

Stores ==
    UNION { { [i \in 1..n |->
                 [ id |-> i,
                   timestamp |-> c[i].timestamp,
                   session_name |-> c[i].session_name,
                   acceleration_x |-> c[i].acceleration_x,
                   acceleration_y |-> 0,
                   acceleration_z |-> 0,
                   magnetic_magnitude |-> 10 * i ]] :
               c \in [1..n -> RowChoices] } : n \in 0..MaxRows }

\* The sequences that list every element of S once.
Orderings(S) ==
    { f \in [1..Cardinality(S) -> S] : \A e \in S : \E i \in DOMAIN f : f[i] = e }

\* Lines 10-12: selectDistinct({session_name}).from(measurements).  SQL fixes
\* no order of the result.
selectDistinct(st) ==
    { [i \in DOMAIN o |-> [session_name |-> o[i]]] :
          o \in Orderings({ st[i].session_name : i \in DOMAIN st }) }

\* Mutant: the where(...) of line 20 is left out.
where_AllRows(st, sn) == { st[i] : i \in DOMAIN st }

\* Line 20: .where(eq(measurements.session_name, session.session_name)).
where(st, sn) == { st[i] : i \in { j \in DOMAIN st : st[j].session_name = sn } }

\* Line 21: .orderBy(measurements.timestamp); rows of equal timestamp come in
\* any order.
orderBy(rows) ==
    { o \in Orderings(rows) :
          \A i \in 1..(Len(o) - 1) : o[i].timestamp <= o[i + 1].timestamp }

Pending == [session_name |-> "(pending)", positions |-> <<>>]

\* Mutant: the results are collected in the order the sessions complete.
settle_Push(ps, i, path) ==
    LET k == Min({ j \in DOMAIN ps : ps[j] = Pending })
    IN  [ps EXCEPT ![k] = path]

\* Promise.all (line 15): the value of the i-th promise goes to slot i.
settle(ps, i, path) == [ps EXCEPT ![i] = path]

notGetVars == <<reconVars, interpVars, doubleVars, homeVars, mobileVars>>

GetInit ==
    /\ ReconIdle
    /\ InterpIdle
    /\ DoubleIdle
    /\ HomeIdle
    /\ MobileIdle
    /\ store \in Stores
    /\ gpc = "start"
    /\ sessions = <<>>
    /\ tasks = <<>>
    /\ paths = <<>>
    /\ response = NoResponse

\* Lines 10-16: the distinct sessions arrive; sessions.map starts one async
\* callback per session, each running up to its await of line 17.
StartSessions ==
    /\ gpc = "start"
    /\ sessions' \in selectDistinct(store)
    /\ tasks' = [i \in DOMAIN sessions' |-> "querying"]
    /\ paths' = [i \in DOMAIN sessions' |-> Pending]
    /\ gpc' = "awaiting"
    /\ UNCHANGED <<store, response>>
    /\ UNCHANGED notGetVars

\* Lines 10-12 reject (the database fails): lines 33-38.
DistinctFails ==
    /\ gpc = "start"
    /\ gpc' = "done"
    /\ response' = [status |-> 500, body |-> <<>>]
    /\ UNCHANGED <<store, sessions, tasks, paths>>
    /\ UNCHANGED notGetVars

\* Lines 17-28 for session i: its query resolves, the callback reconstructs
\* and returns the path; an exception of line 23 rejects its promise.
QueryResolves(i) ==
    /\ gpc = "awaiting"
    /\ tasks[i] = "querying"
    /\ \E sessionMeasurements \in orderBy(where(store, sessions[i].session_name)) :
         LET r == getPositionFromAcceleration(sessionMeasurements)
         IN  IF r.thrown
             THEN /\ tasks' = [tasks EXCEPT ![i] = "rejected"]
                  /\ UNCHANGED paths
             ELSE /\ tasks' = [tasks EXCEPT ![i] = "fulfilled"]
                  /\ paths' = settle(paths, i,
                                 [ session_name |-> sessions[i].session_name,
                                   positions |-> r.positions ])
    /\ UNCHANGED <<store, gpc, sessions, response>>
    /\ UNCHANGED notGetVars

\* Lines 17-21 for session i: the query rejects (the database fails).
QueryFails(i) ==
    /\ gpc = "awaiting"
    /\ tasks[i] = "querying"
    /\ tasks' = [tasks EXCEPT ![i] = "rejected"]
    /\ UNCHANGED <<store, gpc, sessions, paths, response>>
    /\ UNCHANGED notGetVars

\* Lines 15 and 32: every promise is fulfilled, Promise.all resolves.
Respond ==
    /\ gpc = "awaiting"
    /\ \A i \in DOMAIN tasks : tasks[i] = "fulfilled"
    /\ response' = [status |-> 200, body |-> paths]
    /\ gpc' = "done"
    /\ UNCHANGED <<store, sessions, tasks, paths>>
    /\ UNCHANGED notGetVars

\* Lines 15 and 33-38: a promise is rejected, Promise.all rejects.
RespondError ==
    /\ gpc = "awaiting"
    /\ \E i \in DOMAIN tasks : tasks[i] = "rejected"
    /\ response' = [status |-> 500, body |-> <<>>]
    /\ gpc' = "done"
    /\ UNCHANGED <<store, sessions, tasks, paths>>
    /\ UNCHANGED notGetVars

GetNext ==
    \/ StartSessions
    \/ DistinctFails
    \/ \E i \in DOMAIN tasks : QueryResolves(i)
    \/ \E i \in DOMAIN tasks : QueryFails(i)
    \/ Respond
    \/ RespondError

GetSpec == GetInit /\ [][GetNext]_vars

---------------------------------------------------------------------------
(* Claims about GET /api/measurements, checked under GetSpec *)

DistinctNames == { store[i].session_name : i \in DOMAIN store }

SessionRows(sn) == { r \in { store[i] : i \in DOMAIN store } : r.session_name = sn }

\* The rows of session sn in ascending timestamp order (every such order).
AscendingOrders(sn) ==
    { o \in Orderings(SessionRows(sn)) :
          \A i \in 1..(Len(o) - 1) : o[i].timestamp <= o[i + 1].timestamp }

\* ps is what the recurrence of C3 gives on the measurement sequence o.
IsReconstructionOf(ps, o) ==
    /\ Len(ps) = Len(o) - 1
    /\ \A k \in 1..Len(ps) :
          /\ ps[k].x = Pos(o, k + 1, "x")
          /\ ps[k].y = Pos(o, k + 1, "y")
          /\ ps[k].z = Pos(o, k + 1, "z")
          /\ ps[k].timestamp = o[k + 1].timestamp
          /\ ps[k].session_name = o[k + 1].session_name
          /\ ps[k].magnetic_magnitude = o[k + 1].magnetic_magnitude

Answered == gpc = "done" /\ response.status = 200

\* C13: the handler returns exactly one Path per distinct session_name of the
\* store; its positions are the reconstruction of that session's measurements
\* alone in ascending timestamp order, so each carries the Path's
\* session_name and they are in non-decreasing timestamp order.
C13_OnePathPerSession ==
    Answered =>
        LET body == response.body
        IN  /\ Len(body) = Cardinality(DistinctNames)
            /\ { body[i].session_name : i \in DOMAIN body } = DistinctNames
            /\ \A i \in DOMAIN body :
                  /\ \E o \in AscendingOrders(body[i].session_name) :
                        IsReconstructionOf(body[i].positions, o)
                  /\ \A k \in DOMAIN body[i].positions :
                        body[i].positions[k].session_name = body[i].session_name
                  /\ \A k \in 1..(Len(body[i].positions) - 1) :
                        body[i].positions[k].timestamp
                            <= body[i].positions[k + 1].timestamp

\* Two sessions in the store, one of them with two measurements.
C13_Witness ==
    /\ Answered
    /\ Len(response.body) = 2
    /\ \E i \in DOMAIN response.body :
          /\ Len(response.body[i].positions) = 1
          /\ response.body[i].positions[1].x > 0

\* The Paths session sn has when it is computed alone.
IsolatedPaths(sn) ==
    { getPositionFromAcceleration(o).positions : o \in AscendingOrders(sn) }

\* C14: in whatever order the per-session queries complete, slot i of the
\* result holds the Path of session i of the distinct-session list, equal to
\* that session's Path computed in isolation, and nothing else; the response
\* is that list, in the order of the distinct-session list.
C14_IndependentOfScheduling ==
    /\ \A i \in DOMAIN tasks :
          IF tasks[i] = "fulfilled"
          THEN /\ paths[i].session_name = sessions[i].session_name
               /\ paths[i].positions \in IsolatedPaths(sessions[i].session_name)
          ELSE paths[i] = Pending
    /\ Answered =>
          /\ response.body = paths
          /\ Len(response.body) = Len(sessions)
          /\ \A i \in DOMAIN sessions :
                response.body[i].session_name = sessions[i].session_name

\* The second session completes while the first is still being queried.
C14_Witness ==
    /\ gpc = "awaiting"
    /\ Len(sessions) = 2
    /\ tasks[1] = "querying"
    /\ tasks[2] = "fulfilled"
    /\ Len(paths[2].positions) = 1

\* ... and the response that follows it.
C14_WitnessAnswered ==
    /\ Answered
    /\ Len(sessions) = 2
    /\ Len(response.body[2].positions) = 1

---------------------------------------------------------------------------
(* The distance of the radius test *)

UnitsPerCoordinate == 2 ^ 17     \* a coordinate c is held as c * 2^17

Abs(v) == IF v < 0 THEN 0 - v ELSE v

\* The planar distance sqrt((x-gx)^2 + (y-gy)^2) <= radius with the
\* coordinates read as metres, for the lattice point (lx/g, ly/g): in the
\* units of the model sqrt(dx^2 + dy^2) * MsPerSecond <= b with
\* b = r * g * UnitsPerCoordinate (millimetres on both sides).  The test is
\* squared only when b is small, to stay in the integers.
withinPlanar(lx, ly, point, g, r) ==
    LET dx == lx - point.x * g
        dy == ly - point.y * g
        b  == r * g * UnitsPerCoordinate
    IN  /\ r >= 0
        /\ IF b \div MsPerSecond >= Abs(dx) + Abs(dy)
           THEN TRUE
           ELSE MsPerSecond * MsPerSecond * (dx * dx + dy * dy) <= b * b

PlanarQualifying(lx, ly) ==
    { i \in 1..Len(points) : withinPlanar(lx, ly, points[i], gridSize, radius) }

\* C15: a position qualifies for a lattice point exactly when its planar
\* straight-line distance to the point is <= radius: on a bounding box of
\* positive width every cell holds the mean over the positions within planar
\* distance radius of its point, and the returned grid has a cell at every
\* lattice point with such a position.
C15_PlanarDistanceQualifies ==
    ~DegenerateBBox =>
        /\ \A k \in 1..Len(grid) :
              IsMeanOver(grid[k].value, PlanarQualifying(grid[k].x, grid[k].y))
        /\ ipc = "done" =>
              \A lx \in LatticeXs : \A ly \in LatticeYs :
                  PlanarQualifying(lx, ly) # {} => CellsAt(lx, ly) # {}

---------------------------------------------------------------------------
(* The lattice of interpolateMagneticField *)

\* Cells come in ascending x, and in ascending y within one x.
CellsAscending ==
    \A k1, k2 \in 1..Len(grid) :
        k1 < k2 =>
            \/ grid[k1].x < grid[k2].x
            \/ grid[k1].x = grid[k2].x /\ grid[k1].y < grid[k2].y

\* C16: on a bounding box of positive width with gridSize >= 1 the lattice
\* visited is x = minX + i*cellSize for i = 0..gridSize, reaching maxX, and
\* y = minY + j*cellSize for every j with minY + j*cellSize <= maxY: every
\* cell lies on that lattice (so inside the bounding box), no lattice point
\* has two cells, cells come in ascending x then ascending y, and the call
\* returns after the column x = maxX, with a cell at every lattice point
\* that has a position within radius.
C16_LatticeReachesMaxX ==
    (bbox(points)[1] < bbox(points)[3] /\ gridSize >= 1) =>
        /\ \A k \in 1..Len(grid) :
              grid[k].x \in LatticeXs /\ grid[k].y \in LatticeYs
        /\ AtMostOneCellPerPoint
        /\ CellsAscending
        /\ ipc \in {"outer", "inner"} =>
              x <= bbox(points)[3] * gridSize + cellSizeTimesGridSize(points)
        /\ ipc = "done" =>
              /\ x = bbox(points)[3] * gridSize + cellSizeTimesGridSize(points)
              /\ \A lx \in LatticeXs : \A ly \in LatticeYs :
                    Qualifying(lx, ly) # {} => CellsAt(lx, ly) # {}

\* C23: with an empty pool of positions, gridSize >= 1 and radius > 0 the call
\* ends and returns the empty grid, and raises no error.  The bounding box of
\* no feature is [Infinity, Infinity, -Infinity, -Infinity], so x starts at
\* Infinity and the first test x <= bounds[2] of line 21 fails: the call is
\* never in a loop body, its grid stays empty, and from the outer test the
\* only step is the return of line 43.
C23_EmptyPoolReturnsEmptyGrid ==
    (points = <<>> /\ gridSize >= 1 /\ radius > 0) =>
        /\ grid = <<>>
        /\ ipc \in {"start", "outer", "done"}
        /\ ipc = "outer" => ~(x <= timesScale(bbox(points)[3], gridSize))

\* A call on the empty pool has returned, with the empty grid.
C23_Witness ==
    /\ points = <<>>
    /\ gridSize >= 1
    /\ radius > 0
    /\ ipc = "done"
    /\ grid = <<>>

---------------------------------------------------------------------------
(* The Home page (page.tsx), its ControlPanel and the Visualizer that calls
   interpolateMagneticField *)

SliderOvershoot == 3   \* how far past either end of a slider the user reaches

\* A Position as /api/measurements returns it, in the units of the
\* interpolator model.
HomePosition(px, py, m, sn) ==
    [ x |-> px, y |-> py, z |-> 0, timestamp |-> 0,
      session_name |-> sn, magnetic_magnitude |-> m ]

\* What the fetch of Home may answer: no session, a session of a single
\* measurement (no position), one session, two sessions.
HomePaths ==
    { <<>>,
      << [ session_name |-> "A", positions |-> <<>> ] >>,
      << [ session_name |-> "A",
           positions |-> << HomePosition(0, 0, 10, "A") >> ] >>,
      << [ session_name |-> "A",
           positions |-> << HomePosition(0, 0, 10, "A"),
                            HomePosition(1, 1, 20, "A") >> ],
         [ session_name |-> "B",
           positions |-> << HomePosition(2, 0, 10, "B") >> ] >> }

\* paths.flatMap(path => path.positions)
RECURSIVE flatMap(_, _)
flatMap(ps, i) ==
    IF i > Len(ps) THEN <<>> ELSE ps[i].positions \o flatMap(ps, i + 1)

\* interpolation.ts lines 10-13: positions.map(pos => turf.point(...)).
toPoints(ps) ==
    [ i \in 1..Len(ps) |->
        [ x |-> ps[i].x, y |-> ps[i].y, magnitude |-> ps[i].magnetic_magnitude ] ]

\* Mutant: a range input that does not hold its value inside min..max.
rangeValue_NoClamp(v, min, max, step) ==
    LET k == (2 * (v - min) + step) \div (2 * step)
    IN  min + k * step

\* The value an <input type="range" min max step> holds after the user asks
\* for v: v brought inside min..max, then moved to the nearest min + k*step
\* (the upper one of two equally near) that is not above max.
rangeValue(v, min, max, step) ==
    LET c == IF v < min THEN min ELSE IF v > max THEN max ELSE v
        k == (2 * (c - min) + step) \div (2 * step)
        n == min + k * step
    IN  IF n > max THEN n - step ELSE n

\* The Visualizer is rendered with the state h: ThreeScene's useMemo calls
\* interpolateMagneticField(allPositions, gridSize, radius).
RenderVisualizer(h) ==
    /\ points' = toPoints(flatMap(h.paths, 1))
    /\ gridSize' = h.gridSize
    /\ radius' = h.radius
    /\ x' = 0
    /\ y' = 0
    /\ grid' = <<>>
    /\ ipc' = "start"

HomeInit ==
    /\ ReconIdle
    /\ InterpIdle
    /\ GetIdle
    /\ DoubleIdle
    /\ MobileIdle
    /\ home = HomeMounted

notHomeVars == <<reconVars, doubleVars, getVars, mobileVars>>

\* The fetch of the mount effect answers: setPaths(data), setLoading(false),
\* and the page renders the Visualizer and the ControlPanel.
FetchOk ==
    /\ home.loading
    /\ \E data \in HomePaths :
          /\ home' = [home EXCEPT !.paths = data, !.loading = FALSE]
          /\ RenderVisualizer(home')
    /\ UNCHANGED notHomeVars

\* The fetch fails: setError(message), setLoading(false); the page shows the
\* error and neither Visualizer nor ControlPanel.
FetchFails ==
    /\ home.loading
    /\ home' = [home EXCEPT !.error = "Failed to fetch data", !.loading = FALSE]
    /\ UNCHANGED interpVars
    /\ UNCHANGED notHomeVars

ControlPanelShown == ~home.loading /\ home.error = "null"

\* The user moves the Grid Size slider: onChange, setGridSize(Number(value)).
ChangeGridSize ==
    /\ ControlPanelShown
    /\ \E v \in (GridSizeMin - SliderOvershoot)..(GridSizeMax + SliderOvershoot) :
          /\ home' = [home EXCEPT !.gridSize =
                         rangeValue(v, GridSizeMin, GridSizeMax, GridSizeStep)]
          /\ RenderVisualizer(home')
    /\ UNCHANGED notHomeVars

\* The user moves the Interpolation Radius slider: onChange,
\* setRadius(Number(value)).  The user reaches for any multiple of half a
\* step.
ChangeRadius ==
    /\ ControlPanelShown
    /\ \E n \in (0 - SliderOvershoot)..
                  (2 * ((RadiusMax - RadiusMin) \div RadiusStep) + SliderOvershoot) :
          /\ home' = [home EXCEPT !.radius =
                         rangeValue(RadiusMin + n * (RadiusStep \div 2),
                                    RadiusMin, RadiusMax, RadiusStep)]
          /\ RenderVisualizer(home')
    /\ UNCHANGED notHomeVars

HomeNext ==
    \/ FetchOk
    \/ FetchFails
    \/ ChangeGridSize
    \/ ChangeRadius

HomeSpec == HomeInit /\ [][HomeNext]_vars

\* C18: through any sequence of slider changes from the defaults, the values
\* the page holds and passes to interpolateMagneticField are a whole
\* gridSize in 10..100 and a radius in 0.1..5.0, so the interpolator is never
\* called from the page with a non-positive gridSize or radius.
C18_SlidersKeepRange ==
    /\ home.gridSize \in GridSizeMin..GridSizeMax
    /\ RadiusMin <= home.radius /\ home.radius <= RadiusMax
    /\ ipc = "start" =>
          /\ gridSize = home.gridSize
          /\ radius = home.radius
          /\ gridSize \in GridSizeMin..GridSizeMax
          /\ RadiusMin <= radius /\ radius <= RadiusMax
          /\ gridSize > 0
          /\ radius > 0

\* Both sliders dragged to an end and the interpolator called with that.
C18_Witness ==
    /\ ipc = "start"
    /\ gridSize = GridSizeMin
    /\ radius = RadiusMax
    /\ Len(points) = 3

---------------------------------------------------------------------------
(* MagnetometerScreen (mag-field/src/screens/MagnetometerScreen.tsx): the
   recording timer, the pending batch and the flush effect.

   React runs a component in steps.  A setDataBatch call only queues an
   update; a later render applies the queued updates in order and commits
   the new dataBatch; the effect of lines 83-88 of that render runs later
   still, with the dataBatch of its render, and before the next render.  The
   timer of line 76 may fire between any two of these steps. *)

MaxItems == 6          \* the model follows recordDataBatch for this many items
BatchSize == 5         \* line 84: dataBatch.length >= 5

notMobileVars == <<reconVars, interpVars, doubleVars, getVars, homeVars>>

MobileInit ==
    /\ ReconIdle
    /\ InterpIdle
    /\ GetIdle
    /\ DoubleIdle
    /\ HomeIdle
    /\ MobileMounted

\* The state a render computes from the queued updates: "append" is
\* setDataBatch((prevBatch) => [...prevBatch, batchItem]) of line 262, "set"
\* is setDataBatch([]) of line 86.
RECURSIVE applyUpdates(_, _, _)
applyUpdates(queue, i, batch) ==
    IF i > Len(queue) THEN batch
    ELSE applyUpdates(queue, i + 1,
             IF queue[i].kind = "append"
             THEN Append(batch, queue[i].batchItem)
             ELSE queue[i].value)

MaxStarts == 2         \* Start Recording is pressed at most this often

\* What the user may have typed into the Session Name field.
MobileNames == SessionNames \cup {""}

\* Lines 201-214: unsubscribe, run by a closure that sees the subscription
\* states seen.  Each one that is not null is removed and its state set to
\* null; the result is the native subscriptions left active.
unsubscribe(seen, active) ==
    [ k \in DOMAIN active |->
        IF seen[k] # "null" THEN active[k] - 1 ELSE active[k] ]

\* Lines 216-223, 195-199, 162-178 and 73-81: the Start/Stop button, enabled
\* while sessionName is not empty (line 350).  Stop runs unsubscribe with the
\* subscription states of the current render; Start adds the magnetometer and
\* accelerometer listeners, stores them, and calls watchPositionAsync, which
\* resolves later.  Then setIsRecording(!isRecording); the render that
\* follows and its effect, which clears the 500 ms interval or sets it with
\* the recordDataBatch of that render, are part of the step.
toggleRecording ==
    /\ mounted
    /\ sessionName # ""
    /\ IF isRecording
       THEN /\ subscription' = NoSubscription
            /\ listeners' = unsubscribe(subscription, listeners)
            /\ interval' = NoInterval
            /\ UNCHANGED <<watching, started>>
       ELSE /\ started.count < MaxStarts
            /\ subscription' = [subscription EXCEPT !.magnetometer = "sub",
                                                    !.accelerometer = "sub"]
            /\ listeners' = [listeners EXCEPT !.magnetometer = @ + 1,
                                              !.accelerometer = @ + 1]
            /\ watching' = watching + 1
            /\ interval' = [active |-> TRUE, sessionName |-> sessionName]
            /\ started' = [count |-> started.count + 1,
                           session_name |-> sessionName, clock |-> clock]
    /\ isRecording' = ~isRecording
    /\ UNCHANGED <<batchVars, locationDataRef, clock, mounted, sessionName>>
    /\ UNCHANGED notMobileVars

\* Lines 181-192: a watchPositionAsync call resolves; the subscription it
\* made is active and setLocationSubscription stores it (a state update of an
\* unmounted screen is dropped).
watchResolves ==
    /\ watching > 0
    /\ watching' = watching - 1
    /\ listeners' = [listeners EXCEPT !.location = @ + 1]
    /\ subscription' = IF mounted
                       THEN [subscription EXCEPT !.location = "sub"]
                       ELSE subscription
    /\ UNCHANGED <<isRecording, batchVars, locationDataRef, clock, mounted,
                   sessionName, interval, started>>
    /\ UNCHANGED notMobileVars

\* Lines 187-189 and 62-64: an active location subscription reports
\* coordinates; locationDataRef.current follows.
locationUpdate ==
    /\ mounted
    /\ listeners.location > 0
    /\ locationDataRef = "null"
    /\ locationDataRef' = "coords"
    /\ UNCHANGED <<isRecording, batchVars, clock, mounted, sessionName,
                   interval, started>>
    /\ UNCHANGED sensorVars
    /\ UNCHANGED notMobileVars

\* Lines 338-343: the user edits the Session Name field, setSessionName.
changeSessionName ==
    /\ mounted
    /\ \E name \in MobileNames \ {sessionName} : sessionName' = name
    /\ UNCHANGED <<isRecording, batchVars, locationDataRef, clock, mounted,
                   interval, started>>
    /\ UNCHANGED sensorVars
    /\ UNCHANGED notMobileVars

\* Mutant: the callback reads the sessionName of the latest render.
recordDataBatch_LatestName ==
    /\ interval.active
    /\ locationDataRef # "null"
    /\ clock < MaxItems
    /\ clock' = clock + 1
    /\ updateQueue' = Append(updateQueue,
           [kind |-> "append",
            batchItem |-> [timestamp |-> clock + 1,
                           session_name |-> sessionName]])
    /\ UNCHANGED <<isRecording, dataBatch, flushEffect, sent, locationDataRef,
                   mounted, sessionName, interval, started>>
    /\ UNCHANGED sensorVars
    /\ UNCHANGED notMobileVars

\* Lines 76-78 and 225-264: the interval fires and recordDataBatch runs, the
\* one of the render that set the interval, so sessionName (line 236) is the
\* name of that render.  With all three sensor values present it makes
\* batchItem and queues the append.
recordDataBatch ==
    /\ interval.active
    /\ locationDataRef # "null"                                  \* line 230
    /\ clock < MaxItems
    /\ clock' = clock + 1
    /\ updateQueue' = Append(updateQueue,
           [kind |-> "append",
            batchItem |-> [timestamp |-> clock + 1,
                           session_name |-> interval.sessionName]])
    /\ UNCHANGED <<isRecording, dataBatch, flushEffect, sent, locationDataRef,
                   mounted, sessionName, interval, started>>
    /\ UNCHANGED sensorVars
    /\ UNCHANGED notMobileVars

\* React renders: the queued updates are applied in order, the new dataBatch
\* is committed, and the effect of lines 83-88 is owed for it ([dataBatch]
\* changed: every update makes a new array).  React runs the effects it owes
\* before it renders again.
render ==
    /\ mounted
    /\ updateQueue # <<>>
    /\ ~flushEffect.pending
    /\ dataBatch' = applyUpdates(updateQueue, 1, dataBatch)
    /\ updateQueue' = <<>>
    /\ flushEffect' = [pending |-> TRUE, dataBatch |-> dataBatch']
    /\ UNCHANGED <<isRecording, locationDataRef, sent, clock, mounted,
                   sessionName, interval, started>>
    /\ UNCHANGED sensorVars
    /\ UNCHANGED notMobileVars

\* Lines 83-88: the effect runs with the dataBatch of its render.
runFlushEffect ==
    /\ mounted
    /\ flushEffect.pending
    /\ IF Len(flushEffect.dataBatch) >= BatchSize
       THEN /\ sent' = Append(sent, flushEffect.dataBatch)   \* sendDataToServer
            /\ updateQueue' = Append(updateQueue,
                                     [kind |-> "set", value |-> <<>>])
       ELSE UNCHANGED <<sent, updateQueue>>
    /\ flushEffect' = NoEffect
    /\ UNCHANGED <<isRecording, dataBatch, locationDataRef, clock, mounted,
                   sessionName, interval, started>>
    /\ UNCHANGED sensorVars
    /\ UNCHANGED notMobileVars

\* The screen unmounts: the cleanups of the effects run.  That of lines 68-70
\* belongs to the first render (the effect has no dependencies), so its
\* unsubscribe sees the three subscription states as null; that of line 80
\* clears the interval.
unmount ==
    /\ mounted
    /\ mounted' = FALSE
    /\ listeners' = unsubscribe(NoSubscription, listeners)
    /\ interval' = NoInterval
    /\ UNCHANGED <<isRecording, batchVars, locationDataRef, clock, sessionName,
                   subscription, watching, started>>
    /\ UNCHANGED notMobileVars

MobileNext ==
    \/ toggleRecording
    \/ watchResolves
    \/ locationUpdate
    \/ changeSessionName
    \/ recordDataBatch
    \/ render
    \/ runFlushEffect
    \/ unmount

MobileSpec == MobileInit /\ [][MobileNext]_vars

---------------------------------------------------------------------------
(* Claims about the recording of MagnetometerScreen, checked under MobileSpec *)

\* The items recordDataBatch has appended so far, by timestamp.
Appended == 1..clock

\* Where item t occurs in the batches handed to sendDataToServer.
SentAt(t) ==
    { <<k, j>> \in (1..Len(sent)) \X (1..MaxItems) :
          j <= Len(sent[k]) /\ sent[k][j].timestamp = t }

\* The pending batch: dataBatch as React will next commit it.
PendingBatch == applyUpdates(updateQueue, 1, dataBatch)

StillPending(t) ==
    \E j \in 1..Len(PendingBatch) : PendingBatch[j].timestamp = t

\* C19: every item recordDataBatch appended is in exactly one batch handed to
\* sendDataToServer or is still pending, however the timer interleaves with
\* the flush effect: the setDataBatch([]) after a send discards no item
\* appended after the sent batch was captured, no item is sent twice, and
\* every batch sent holds at least 5 items.
C19_BatchFlushSafety ==
    /\ \A t \in Appended :
          \/ Cardinality(SentAt(t)) = 1
          \/ SentAt(t) = {} /\ StillPending(t)
    /\ \A k \in 1..Len(sent) : Len(sent[k]) >= BatchSize

\* React has nothing left to do and the timer is stopped: the only step left
\* is the user starting to record again.
AtRest ==
    /\ ~isRecording
    /\ updateQueue = <<>>
    /\ ~flushEffect.pending

\* C20: every item recordDataBatch appended is eventually handed to
\* sendDataToServer, the items pending when the user stops recording
\* included: once recording is stopped and React is at rest, no appended
\* item is left that was not handed over.
C20_DeliveredAtRest ==
    AtRest => \A t \in Appended : SentAt(t) # {}

\* C21: once toggleRecording has stopped a recording, and once the screen
\* has unmounted, no magnetometer, accelerometer or location subscription made
\* by subscribe is active, whether watchPositionAsync resolves before or
\* after the stop or the unmount and however often recording was toggled.
C21_NoSubscriptionLeft ==
    (~mounted \/ ~isRecording) => listeners = NoListeners

\* The two ways the code leaves a subscription active: a location
\* subscription that resolved after Stop, and the listeners of a recording
\* that was on when the screen unmounted.
C21_LocationLeftAfterStop ==
    mounted /\ ~isRecording /\ listeners.location > 0

C21_ListenersLeftAfterUnmount ==
    ~mounted /\ listeners.magnetometer > 0 /\ listeners.accelerometer > 0

Range(q) == { q[i] : i \in DOMAIN q }

\* Every batchItem there is: queued, in dataBatch as rendered or as the flush
\* effect holds it, or handed to sendDataToServer.
BatchItems ==
    { u.batchItem : u \in { v \in Range(updateQueue) : v.kind = "append" } }
        \cup Range(dataBatch)
        \cup Range(flushEffect.dataBatch)
        \cup UNION { Range(sent[k]) : k \in DOMAIN sent }

\* The items recorded since Start Recording was last pressed.
ItemsOfThisRecording ==
    { item \in BatchItems : item.timestamp > started.clock }

\* C22: all items recorded during one recording, from a press of Start to
\* the next press of Stop, carry one session_name that is not empty: the
\* name in the field when Start was pressed, also when the field is edited
\* while recording.
C22_OneSessionNamePerRecording ==
    \A item \in ItemsOfThisRecording :
        /\ item.session_name = started.session_name
        /\ item.session_name # ""

\* A second recording under another name than the first, its field edited
\* again while it records: an item of the first recording is in dataBatch, an
\* item of the second is queued, and neither name is the one in the field.
C22_Witness ==
    /\ isRecording
    /\ started.count = 2
    /\ sessionName # started.session_name
    /\ \E old \in Range(dataBatch) :
          /\ old.timestamp <= started.clock
          /\ old.session_name # started.session_name
    /\ \E u \in Range(updateQueue) :
          /\ u.kind = "append"
          /\ u.batchItem.timestamp > started.clock
          /\ u.batchItem.session_name = started.session_name

=============================================================================
